---- MODULE Spec2Model ----
(***************************************************************************)
(* Buffer pool manager (src/buffer/buffer_pool_manager.cpp) on top of the  *)
(* LRU replacer (src/buffer/lru_replacer.cpp), and the B+ tree pages       *)
(* (src/storage/page) that live in its frames.                             *)
(*                                                                         *)
(* Every public operation of the manager runs between latch_.lock() and    *)
(* latch_.unlock(), so each is one atomic action in Spec.  Page ids are the*)
(* ones DiskManager::AllocatePage has handed out (0, 1, ...), some of them *)
(* possibly before the pool was built; callers fetch and unpin only such   *)
(* ids.                                                                    *)
(*                                                                         *)
(* History variables are kept in a mode fixed at Init: "pins" records each *)
(* call and the pin history of the frames, "data" lets callers write page  *)
(* buffers and records the content of one watched page.                    *)
(*                                                                         *)
(* Specifications:                                                         *)
(*   Spec           one caller of the buffer pool                          *)
(*   SpecMT         several threads calling into the buffer pool           *)
(*   SpecMTFair     SpecMT under fair scheduling of the threads            *)
(*   SpecReplacer   one client of a stand-alone replacer                   *)
(*   SpecReplacerMT several threads calling into a stand-alone replacer    *)
(*   SpecNode       the index accessors of one tree page                   *)
(*   SpecMove       internal-page moves re-parenting children in the pool  *)
(*   SpecInternalPair  two internal pages and their move operations       *)
(*   SpecLeaf       one leaf under Insert, RemoveAndDeleteRecord, Lookup   *)
(*   SpecLeafPair   two leaves and their move operations                   *)
(*   SpecPair       a pair of pages of either kind                         *)
(*   SpecSplit      a page that has to split and the new, empty page       *)
(***************************************************************************)
EXTENDS Integers, Sequences, FiniteSets, TLC

\* ---- bounds -------------------------------------------------------------
MaxPoolSize == 2       \* pool_size_ is any of 1 .. MaxPoolSize
MaxPages == 3          \* page ids the disk manager may hand out
MaxPin   == 2          \* cap on pin_count_ (the code never lowers it)
MaxPrealloc == 1       \* page ids handed out before the pool was built
MaxVal   == 1          \* page contents are 0 (zeroed) .. MaxVal
MaxNumPages == 3       \* a stand-alone replacer is built for 1 .. MaxNumPages
NumThreads == 2        \* threads calling into one replacer / one pool
MaxKey   == 3          \* index keys are 1 .. MaxKey
MaxSize  == 3          \* a tree page holds 0 .. MaxSize entries
MaxPairKey == 5        \* two sibling pages hold keys 1 .. MaxPairKey
MaxSplitSize == 4      \* a page that splits has max_size 2 .. MaxSplitSize

\* ---- program constants ---------------------------------------------------
INVALID_PAGE_ID == -1  \* page_id_ of a frame that holds no page
NoFrame == -1          \* nullptr / "no frame" (page_table_.end())
DefaultKey == 0        \* KeyType key{} (and the zeroed key of a fresh page)

PageIds == 0 .. (MaxPages - 1)
Values  == 0 .. MaxVal

VARIABLES
  pool_size,        \* pool_size_ (fixed at construction)
  pages,            \* pages_[f] : page_id_, pin_count_, is_dirty_, data_
  page_table,       \* page_table_ : page id -> frame (NoFrame = absent)
  free_list,        \* free_list_
  unpinned_frames,  \* LRUReplacer::unpinned_frames (front = LRU)
  disk,             \* DiskManager: page id -> stored content
  next_page_id,     \* DiskManager: next id AllocatePage returns
  crashed,          \* the process died (undefined behaviour took that way)
  op,               \* the call that ran last, with what it returned / did
  acquired,         \* ghost: per frame, successful fetch/new_page since load
  released,         \* ghost: per frame, unpins that returned true since load
  watched,          \* ghost: the page whose content history is recorded
  durable,          \* ghost: {content of watched handed over by unpin(dirty)}
  reloaded,         \* ghost: watched came back from disk after such an unpin
  retry,            \* ghost: progress of a fetch that failed on a full pool
  track,            \* which history a behaviour records: "pins" or "data"
  num_pages,        \* the argument LRUReplacer was constructed with
  lru_mutex,        \* LRUReplacer::lru_mutex : 0 = free, else the holder
  rcall,            \* the replacer call a client made last, and its result
  older,            \* ghost: <<a, b>> : a's last insertion precedes b's
  node,             \* a B+ tree page: page_type and array[0 .. size-1]
  acc,              \* the accessor called last on node, and what it gave
  recipient,        \* the page a move operation of node hands entries to
  ref,              \* ghost: the reference map of a leaf, as (key, value) set
  latch,            \* BufferPoolManager::latch_ : 0 = free, else the holder
  move              \* the re-parenting loop of an internal-page move

vars == <<pool_size, pages, page_table, free_list, unpinned_frames, disk,
          next_page_id, crashed, op, acquired, released, watched, durable,
          reloaded, retry, track, num_pages, lru_mutex, rcall, older,
          node, acc, recipient, ref, latch, move>>

\* what a stand-alone replacer's clients see; the pool's calls leave it alone
lru_client == <<num_pages, lru_mutex, rcall, older>>

\* a tree page and its caller; no pool or replacer call touches them
tree == <<node, acc, recipient, ref>>

\* where the pool's caller stands: the latch and the move it is running
caller == <<latch, move>>

bpm == <<pages, page_table, free_list, unpinned_frames, disk, next_page_id>>

\* the pool without its replacer
pool_rest == <<pool_size, pages, page_table, free_list, disk, next_page_id,
               crashed, op, acquired, released, watched, durable, reloaded,
               retry, track>>

Threads == 1 .. NumThreads

Frames == 0 .. (pool_size - 1)

Min(a, b) == IF a < b THEN a ELSE b

\* ---- LRUReplacer -----------------------------------------------------------
RECURSIVE RemoveFirst(_, _)
RemoveFirst(s, f) ==
  IF s = <<>> THEN <<>>
  ELSE IF Head(s) = f THEN Tail(s)
  ELSE <<Head(s)>> \o RemoveFirst(Tail(s), f)

InSeq(s, f) == \E i \in 1 .. Len(s) : s[i] = f

\* the elements of the sequence, and the first position of f (0 = nowhere)
Tracked(s) == {s[i] : i \in 1 .. Len(s)}

IndexOf(s, f) ==
  IF InSeq(s, f) THEN CHOOSE i \in 1 .. Len(s) :
                        s[i] = f /\ \A j \in 1 .. (i - 1) : s[j] # f
  ELSE 0

\* the bug "victim takes the back of the vector" (most recently unpinned)
Victim_Newest(s) ==
  IF s = <<>> THEN [found |-> FALSE, frame_id |-> NoFrame, rest |-> s]
  ELSE [found |-> TRUE, frame_id |-> s[Len(s)],
        rest |-> SubSeq(s, 1, Len(s) - 1)]

\* LRUReplacer::Victim : [found, frame_id, rest]
Victim(s) ==
  IF s = <<>> THEN [found |-> FALSE, frame_id |-> NoFrame, rest |-> s]
  ELSE [found |-> TRUE, frame_id |-> Head(s), rest |-> Tail(s)]

\* the bug "pin only looks at the front of the vector"
Pin_FrontOnly(s, frame_id) ==
  IF s # <<>> /\ Head(s) = frame_id THEN Tail(s) ELSE s

\* LRUReplacer::Pin
Pin(s, frame_id) == RemoveFirst(s, frame_id)

\* the bug "no membership test before push_back"
AlreadyTracked_Never(s, frame_id) == FALSE

\* LRUReplacer::Unpin, the loop that returns when frame_id is in the vector
AlreadyTracked(s, frame_id) == InSeq(s, frame_id)

\* the bug "frame_id <= 0": frame 0 is never tracked
Unpin_SkipsFrameZero(s, frame_id) ==
  IF frame_id <= 0 THEN s
  ELSE IF AlreadyTracked(s, frame_id) THEN s
  ELSE Append(s, frame_id)

\* LRUReplacer::Unpin (no test of frame_id against the constructor argument)
Unpin(s, frame_id) ==
  IF frame_id < 0 THEN s
  ELSE IF AlreadyTracked(s, frame_id) THEN s
  ELSE Append(s, frame_id)

\* LRUReplacer::Size
Size(s) == Len(s)

\* ---- DiskManager (collaborator) -------------------------------------------
ReadPage(d, page_id) == d[page_id]
WritePage(d, page_id, data) == [d EXCEPT ![page_id] = data]

\* ---- the record of the last call --------------------------------------------
NoOp == [kind |-> "init", page_id |-> INVALID_PAGE_ID, is_dirty |-> FALSE,
         ok |-> FALSE, frame |-> NoFrame, miss |-> FALSE,
         victim_called |-> FALSE, evicted |-> INVALID_PAGE_ID,
         wrote |-> INVALID_PAGE_ID, read |-> INVALID_PAGE_ID]

NoRetry == [page_id |-> INVALID_PAGE_ID, stage |-> 0]

\* pos: where frame_id stood in the sequence before the call (0 = nowhere)
\* raced: the call read the sequence while another thread held lru_mutex
NoCall == [kind |-> "init", frame_id |-> NoFrame, found |-> FALSE,
           pos |-> 0, size |-> 0, raced |-> FALSE]

FreshPage == [page_id |-> INVALID_PAGE_ID, pin_count |-> 0,
              is_dirty |-> FALSE, data |-> 0]

PoolFresh ==
  /\ pool_size \in 1 .. MaxPoolSize
  /\ pages = [f \in Frames |-> FreshPage]
  /\ page_table = [p \in PageIds |-> NoFrame]
  /\ free_list = [i \in 1 .. pool_size |-> i - 1]
  /\ unpinned_frames = <<>>
  \* the disk manager is handed in: it may have allocated and written pages
  /\ next_page_id \in 0 .. MaxPrealloc
  /\ disk = [p \in PageIds |-> 0]
  /\ crashed = FALSE
  /\ op = NoOp
  /\ acquired = [f \in Frames |-> 0]
  /\ released = [f \in Frames |-> 0]
  /\ watched \in IF track = "data" THEN PageIds ELSE {INVALID_PAGE_ID}
  /\ durable = {}
  /\ reloaded = FALSE
  /\ retry = NoRetry

\* out: <<>> when the call gave nothing back, else <<what it returned>>
NoAccess == [fn |-> "init", index |-> 0, threw |-> FALSE, out |-> <<>>]

\* B_PLUS_TREE_LEAF_PAGE_TYPE::Init : an empty leaf
EmptyLeaf == [page_type |-> "LEAF_PAGE", array |-> <<>>]

\* stage: idle, or what the loop does next for the child todo[1] / cur
\* before, evictable: pin_count_ and replacer membership of the children that
\* were resident when the move began;  fetches, unpins: calls made so far
NoMove == [kind |-> "none", stage |-> "idle", children |-> <<>>,
           todo |-> <<>>, cur |-> INVALID_PAGE_ID, parent |-> 0,
           before |-> {}, evictable |-> {}, kept |-> {}, fetches |-> 0,
           unpins |-> 0]

NoTree ==
  /\ node = EmptyLeaf
  /\ acc = NoAccess
  /\ recipient = EmptyLeaf
  /\ ref = {}
  /\ latch = 0
  /\ move = NoMove

\* replacer_ = new LRUReplacer(pool_size)
ReplacerInit ==
  /\ num_pages = pool_size
  /\ lru_mutex = 0
  /\ rcall = NoCall
  /\ older = {}

PoolInit ==
  /\ track \in {"pins", "data"}
  /\ PoolFresh

Init ==
  /\ PoolInit
  /\ ReplacerInit
  /\ NoTree

Allocated == 0 .. (next_page_id - 1)

\* ghost: every frame holds a page that was fetched and never unpinned since
AllHeldNoUnpin ==
  \A f \in Frames : /\ pages[f].page_id # INVALID_PAGE_ID
                    /\ acquired[f] >= 1
                    /\ released[f] = 0

\* ---- pieces of FetchPageImpl / NewPageImpl ----------------------------------
\* the bug "ask the replacer first, fall back on the free list"
UseFreeList_ReplacerFirst(fl, repl) == fl # <<>> /\ repl = <<>>

\* "pages are always found from the free list first" (!free_list_.empty())
UseFreeList(fl, repl) == fl # <<>>

\* free_list_.front()
Front(fl) == Head(fl)

\* the bug "front() without pop_front()"
PopFront_Keep(fl) == fl

\* free_list_.pop_front()
PopFront(fl) == Tail(fl)

\* the bug "victim reused without write-back"
WriteBack_Skip(d, pg) == [disk |-> d, wrote |-> INVALID_PAGE_ID]

\* if (replPage->IsDirty()) WritePage(replPage->GetPageId(), GetData())
WriteBack(d, pg) ==
  IF pg.is_dirty
    THEN [disk |-> WritePage(d, pg.page_id, pg.data), wrote |-> pg.page_id]
    ELSE [disk |-> d, wrote |-> INVALID_PAGE_ID]

\* the bug "victim's mapping left in the page table"
EraseMapping_Keep(pt, page_id) == pt

\* page_table_.erase(victim's page id)
EraseMapping(pt, page_id) == [pt EXCEPT ![page_id] = NoFrame]

\* page_table_.insert({page_id, frame}) / page_table_[page_id] = frame
InsertMapping(pt, page_id, frame) == [pt EXCEPT ![page_id] = frame]

\* the bug "is_dirty_ = is_dirty": a clean unpin wipes the flag
MarkDirty_Assign(pg, is_dirty) == [pg EXCEPT !.is_dirty = is_dirty]

\* UnpinPageImpl: if (is_dirty) unpinned_page->is_dirty_ = true
MarkDirty(pg, is_dirty) ==
  IF is_dirty THEN [pg EXCEPT !.is_dirty = TRUE] ELSE pg

\* the bug "no early return when everything is pinned"
AllPinned_NoCheck(fl, repl) == FALSE

\* NewPageImpl: free_list_.empty() && replacer_->Size() == 0
AllPinned(fl, repl) == fl = <<>> /\ Size(repl) = 0

\* ---- history variables ------------------------------------------------------
\* They are functions of the state before the call and of the record op' of the
\* call; the program state never depends on them.  A behaviour records either
\* the pin history (track = "pins") or the content history (track = "data").
Acquiring(o) == o.kind \in {"fetch", "new"} /\ o.ok

\* unpin returned true (o.frame is the frame it handed to the replacer) ...
Unpinned(o) == o.kind = "unpin" /\ o.ok

\* ... and the page it named was resident
Releasing(o) == Unpinned(o) /\ ~o.miss

AcquiredAfter(o) ==
  IF Acquiring(o)
    THEN [acquired EXCEPT ![o.frame] = IF o.miss THEN 1 ELSE @ + 1]
    ELSE acquired

ReleasedAfter(o) ==
  IF Acquiring(o) /\ o.miss THEN [released EXCEPT ![o.frame] = 0]
  ELSE IF Unpinned(o) THEN [released EXCEPT ![o.frame] = Min(@ + 1, MaxPin)]
  ELSE released

\* stage 1: fetch(page_id) failed while every frame was held and never unpinned
\* stage 2: then one resident page was unpinned;  stage 3: then the fetch was
\* retried and returned a page
RetryAfter(o) ==
  IF o.kind = "fetch" /\ ~o.ok /\ AllHeldNoUnpin
    THEN [page_id |-> o.page_id, stage |-> 1]
  ELSE IF Releasing(o) /\ retry.stage = 1
    THEN [retry EXCEPT !.stage = 2]
  ELSE IF o.kind = "fetch" /\ o.ok /\ retry.stage = 2
          /\ o.page_id = retry.page_id
    THEN [retry EXCEPT !.stage = 3]
  ELSE NoRetry

DurableAfter(o) ==
  IF o.page_id # watched THEN durable
  ELSE IF o.kind = "modify" THEN {}
  ELSE IF Releasing(o) /\ o.is_dirty THEN {pages[o.frame].data}
  ELSE durable

ReloadedAfter(o) ==
  reloaded \/ (o.kind = "fetch" /\ o.ok /\ o.miss /\ o.page_id = watched
               /\ durable # {})

\* what a call leaves behind besides the program state: its record (pin
\* history) or the content promised for the watched page (content history)
Record(call) ==
  /\ UNCHANGED lru_client
  /\ UNCHANGED tree
  /\ track' = track
  /\ pool_size' = pool_size
  /\ watched' = watched
  /\ op' = IF track = "pins" THEN call ELSE NoOp
  /\ acquired' = IF track = "pins" THEN AcquiredAfter(call) ELSE acquired
  /\ released' = IF track = "pins" THEN ReleasedAfter(call) ELSE released
  /\ retry' = IF track = "pins" THEN RetryAfter(call) ELSE retry
  /\ durable' = IF track = "data" THEN DurableAfter(call) ELSE durable
  /\ reloaded' = IF track = "data" THEN ReloadedAfter(call) ELSE reloaded

\* ---- BufferPoolManager::FetchPageImpl ---------------------------------------
\* A call of fetch, unpin, flush or new_page is latch_.lock(), the code run
\* while the latch is held (...Latched), and latch_.unlock() on every return.
\* One caller makes its calls one after the other (Idle).
Idle == latch = 0 /\ move.stage = "idle"

FetchPageLatched(page_id) ==
  /\ ~crashed
  /\ page_id \in Allocated
  /\ LET f_id == page_table[page_id] IN
     IF f_id # NoFrame THEN
       \* 1.1 P exists: pin it and return it
       /\ pages[f_id].pin_count < MaxPin
       /\ pages' = [pages EXCEPT ![f_id].pin_count = @ + 1]
       /\ unpinned_frames' = Pin(unpinned_frames, f_id)
       /\ Record([NoOp EXCEPT !.kind = "fetch", !.page_id = page_id,
                             !.ok = TRUE, !.frame = f_id])
       /\ UNCHANGED <<page_table, free_list, disk>>
     ELSE IF UseFreeList(free_list, unpinned_frames) THEN
       LET page_frame_id == Front(free_list) IN
       /\ free_list' = PopFront(free_list)
       /\ page_table' = InsertMapping(page_table, page_id, page_frame_id)
       /\ pages' = [pages EXCEPT ![page_frame_id] =
                      [page_id |-> page_id, pin_count |-> 1,
                       is_dirty |-> FALSE, data |-> ReadPage(disk, page_id)]]
       /\ unpinned_frames' = Pin(unpinned_frames, page_frame_id)
       /\ Record([NoOp EXCEPT !.kind = "fetch", !.page_id = page_id,
                             !.ok = TRUE, !.frame = page_frame_id,
                             !.miss = TRUE, !.read = page_id])
       /\ UNCHANGED disk
     ELSE
       LET v == Victim(unpinned_frames) IN
       IF ~v.found THEN
         \* no victim: all pages are pinned
         /\ Record([NoOp EXCEPT !.kind = "fetch", !.page_id = page_id,
                               !.miss = TRUE, !.victim_called = TRUE])
         /\ UNCHANGED bpm
       ELSE
         LET page_frame_id == v.frame_id
             replPage == pages[page_frame_id]
             written == WriteBack(disk, replPage)
         IN
         /\ disk' = written.disk
         /\ page_table' = InsertMapping(
                            EraseMapping(page_table, replPage.page_id),
                            page_id, page_frame_id)
         /\ pages' = [pages EXCEPT ![page_frame_id] =
                        [page_id |-> page_id, pin_count |-> 1,
                         is_dirty |-> FALSE,
                         data |-> ReadPage(written.disk, page_id)]]
         /\ unpinned_frames' = Pin(v.rest, page_frame_id)
         /\ Record([NoOp EXCEPT !.kind = "fetch", !.page_id = page_id,
                               !.ok = TRUE, !.frame = page_frame_id,
                               !.miss = TRUE, !.victim_called = TRUE,
                               !.evicted = replPage.page_id,
                               !.wrote = written.wrote,
                               !.read = page_id])
         /\ UNCHANGED free_list
  /\ UNCHANGED <<next_page_id, crashed>>

FetchPageImpl(page_id) ==
  Idle /\ FetchPageLatched(page_id) /\ UNCHANGED caller

\* ---- BufferPoolManager::UnpinPageImpl ---------------------------------------
\* page_table_.find(page_id)->second is read twice without a check for end():
\* for a page that is not resident both reads are undefined.  The process
\* either dies or goes on with whatever the two reads gave (g1, g2).
UnpinPageLatched(page_id, is_dirty) ==
  /\ ~crashed
  /\ page_id \in Allocated
  /\ \E die \in BOOLEAN, g1 \in Frames, g2 \in Frames :
       LET resident == page_table[page_id] # NoFrame
           unpinned_frame_id == IF resident THEN page_table[page_id] ELSE g1
           victim_frame == IF resident THEN page_table[page_id] ELSE g2
           unpinned_page == pages[unpinned_frame_id]
           call == [NoOp EXCEPT !.kind = "unpin", !.page_id = page_id,
                                !.is_dirty = is_dirty, !.miss = ~resident]
       IN
       /\ resident => (~die /\ g1 = 0 /\ g2 = 0)
       /\ die => (g1 = 0 /\ g2 = 0)
       /\ IF die THEN
            /\ crashed' = TRUE
            /\ Record(call)
            /\ UNCHANGED bpm
          ELSE IF unpinned_page.pin_count <= 0 THEN
            /\ Record(call)
            /\ UNCHANGED <<bpm, crashed>>
          ELSE
            /\ unpinned_frames' = Unpin(unpinned_frames, victim_frame)
            /\ pages' = [pages EXCEPT ![unpinned_frame_id] =
                           MarkDirty(@, is_dirty)]
            /\ Record([call EXCEPT !.ok = TRUE, !.frame = victim_frame])
            /\ UNCHANGED <<page_table, free_list, disk, next_page_id, crashed>>

UnpinPageImpl(page_id, is_dirty) ==
  Idle /\ UnpinPageLatched(page_id, is_dirty) /\ UNCHANGED caller

\* ---- BufferPoolManager::FlushPageImpl ---------------------------------------
FlushPageLatched(page_id) ==
  /\ ~crashed
  /\ page_id \in Allocated
  /\ Record([NoOp EXCEPT !.kind = "flush", !.page_id = page_id])
  /\ UNCHANGED <<bpm, crashed>>

FlushPageImpl(page_id) ==
  Idle /\ FlushPageLatched(page_id) /\ UNCHANGED caller

\* ---- BufferPoolManager::NewPageImpl -----------------------------------------
NewPageLatched ==
  /\ ~crashed
  /\ IF AllPinned(free_list, unpinned_frames) THEN
       /\ Record([NoOp EXCEPT !.kind = "new"])
       /\ UNCHANGED bpm
     ELSE
       /\ next_page_id < MaxPages
       /\ LET new_page_id == next_page_id
              fromFree == UseFreeList(free_list, unpinned_frames)
              v == Victim(unpinned_frames)
              frame_id == IF fromFree THEN Front(free_list) ELSE v.frame_id
          IN
          /\ next_page_id' = next_page_id + 1
          /\ IF ~fromFree /\ ~v.found THEN
               \* "shouldn't happen since we checked above"
               /\ Record([NoOp EXCEPT !.kind = "new", !.victim_called = TRUE])
               /\ UNCHANGED <<pages, page_table, free_list, unpinned_frames,
                              disk>>
             ELSE
               LET page == pages[frame_id]
                   written == IF fromFree
                                THEN [disk |-> disk, wrote |-> INVALID_PAGE_ID]
                                ELSE WriteBack(disk, page)
               IN
               /\ free_list' = IF fromFree THEN PopFront(free_list)
                                          ELSE free_list
               /\ disk' = written.disk
               /\ page_table' = InsertMapping(
                                  IF fromFree THEN page_table
                                  ELSE EraseMapping(page_table, page.page_id),
                                  new_page_id, frame_id)
               /\ pages' = [pages EXCEPT ![frame_id] =
                              [page_id |-> new_page_id, pin_count |-> 1,
                               is_dirty |-> FALSE, data |-> 0]]
               /\ unpinned_frames' =
                    Pin(IF fromFree THEN unpinned_frames ELSE v.rest, frame_id)
               /\ Record([NoOp EXCEPT
                            !.kind = "new", !.page_id = new_page_id,
                            !.ok = TRUE, !.frame = frame_id, !.miss = TRUE,
                            !.victim_called = ~fromFree,
                            !.evicted = IF fromFree THEN INVALID_PAGE_ID
                                        ELSE page.page_id,
                            !.wrote = written.wrote])
  /\ UNCHANGED crashed

NewPageImpl == Idle /\ NewPageLatched /\ UNCHANGED caller

\* ---- BufferPoolManager::DeletePageImpl --------------------------------------
\* return false, without taking the latch
DeletePageImpl(page_id) ==
  /\ move.stage = "idle"
  /\ UNCHANGED caller
  /\ ~crashed
  /\ page_id \in Allocated
  /\ Record([NoOp EXCEPT !.kind = "delete", !.page_id = page_id])
  /\ UNCHANGED <<bpm, crashed>>

\* ---- BufferPoolManager::FlushAllPagesImpl -----------------------------------
\* an empty body, without taking the latch
FlushAllPagesImpl ==
  /\ move.stage = "idle"
  /\ UNCHANGED caller
  /\ ~crashed
  /\ Record([NoOp EXCEPT !.kind = "flush_all"])
  /\ UNCHANGED <<bpm, crashed>>

\* ---- a caller writes into the buffer of a page it got from fetch/new_page ----
WriteBuffer(page_id, v) ==
  /\ ~crashed
  /\ page_id \in Allocated
  /\ page_table[page_id] # NoFrame
  /\ LET f == page_table[page_id] IN
     /\ pages[f].pin_count > 0
     /\ pages' = [pages EXCEPT ![f].data = v]
     /\ Record([NoOp EXCEPT !.kind = "modify", !.page_id = page_id,
                           !.frame = f])
  /\ UNCHANGED <<page_table, free_list, unpinned_frames, disk, next_page_id,
                 crashed>>

Modify(page_id, v) ==
  track = "data" /\ Idle /\ WriteBuffer(page_id, v) /\ UNCHANGED caller

Next ==
  \/ \E p \in PageIds : FetchPageImpl(p)
  \/ \E p \in PageIds, d \in BOOLEAN : UnpinPageImpl(p, d)
  \/ \E p \in PageIds : FlushPageImpl(p)
  \/ NewPageImpl
  \/ \E p \in PageIds : DeletePageImpl(p)
  \/ FlushAllPagesImpl
  \/ \E p \in PageIds, v \in Values : Modify(p, v)

Spec == Init /\ [][Next]_vars

\* ---- several threads calling into one pool -------------------------------------
\* A thread enters fetch, unpin, flush or new_page by taking the latch
\* (Acquire), runs the call's code and leaves, dropping the latch.  delete_page
\* and flush_all take no latch and run whenever a thread calls them.
InitMT ==
  /\ track = "pins"
  /\ Init

Acquire(t) ==
  /\ ~crashed
  /\ latch = 0
  /\ latch' = t
  /\ UNCHANGED <<bpm, pool_rest, lru_client, tree, move>>

\* the bug "return nullptr without latch_.unlock()" where no frame is left
Unlock_NotWhenExhausted(t, call) ==
  IF call.kind \in {"fetch", "new"} /\ ~call.ok THEN t ELSE 0

\* latch_.unlock() in front of every return; call is what the call did
Unlock(t, call) == 0

ThreadFetchPage(t, page_id) ==
  /\ latch = t
  /\ FetchPageLatched(page_id)
  /\ latch' = Unlock(t, op')
  /\ UNCHANGED move

ThreadUnpinPage(t, page_id, is_dirty) ==
  /\ latch = t
  /\ UnpinPageLatched(page_id, is_dirty)
  /\ latch' = Unlock(t, op')
  /\ UNCHANGED move

ThreadFlushPage(t, page_id) ==
  /\ latch = t
  /\ FlushPageLatched(page_id)
  /\ latch' = Unlock(t, op')
  /\ UNCHANGED move

ThreadNewPage(t) ==
  /\ latch = t
  /\ NewPageLatched
  /\ latch' = Unlock(t, op')
  /\ UNCHANGED move

ThreadDeletePage(t, page_id) == latch # t /\ DeletePageImpl(page_id)

ThreadFlushAllPages(t) == latch # t /\ FlushAllPagesImpl

NextMT ==
  \/ \E t \in Threads : Acquire(t)
  \/ \E t \in Threads, p \in PageIds : ThreadFetchPage(t, p)
  \/ \E t \in Threads, p \in PageIds, d \in BOOLEAN :
       ThreadUnpinPage(t, p, d)
  \/ \E t \in Threads, p \in PageIds : ThreadFlushPage(t, p)
  \/ \E t \in Threads : ThreadNewPage(t)
  \/ \E t \in Threads, p \in PageIds : ThreadDeletePage(t, p)
  \/ \E t \in Threads : ThreadFlushAllPages(t)

SpecMT == InitMT /\ [][NextMT]_vars

\* what thread t does once it holds the latch: the body of the call it is
\* in, up to its return
ThreadCall(t) ==
  \/ \E p \in PageIds : ThreadFetchPage(t, p)
  \/ \E p \in PageIds, d \in BOOLEAN : ThreadUnpinPage(t, p, d)
  \/ \E p \in PageIds : ThreadFlushPage(t, p)
  \/ ThreadNewPage(t)

\* a pool of one frame
InitMTFair == InitMT /\ pool_size = 1

\* fair scheduling: a thread inside a call keeps running, and a thread that
\* finds the latch free again and again gets it
SpecMTFair ==
  /\ InitMTFair
  /\ [][NextMT]_vars
  /\ \A t \in Threads : WF_vars(ThreadCall(t)) /\ SF_vars(Acquire(t))

\* ---- a stand-alone LRUReplacer and its clients -------------------------------
\* The replacer is built for num_pages frames and called directly; the pool
\* around it (pool_rest) stays as constructed.
\* frame ids a client may pass: negative, valid, and beyond num_pages
FrameArgs == -1 .. MaxNumPages

\* insertion order of the tracked frames: a frame becomes the newest when an
\* unpin finds it untracked, and is forgotten when pin or victim takes it
OlderAfter(c) ==
  IF c.kind = "unpin" /\ c.frame_id >= 0 /\ c.pos = 0
    THEN older \cup {<<a, c.frame_id>> : a \in Tracked(unpinned_frames)}
  ELSE IF c.kind = "pin" \/ (c.kind = "victim" /\ c.found)
    THEN {pr \in older : pr[1] # c.frame_id /\ pr[2] # c.frame_id}
  ELSE older

ReplacerRecord(c) ==
  /\ rcall' = c
  /\ older' = OlderAfter(c)
  /\ UNCHANGED <<num_pages, pool_rest, tree, caller>>

\* LRUReplacer::LRUReplacer(num_pages): reserve() only, nothing is tracked
InitReplacer ==
  /\ track = "pins"
  /\ pool_size = 1
  /\ next_page_id = 0
  /\ PoolInit
  /\ num_pages \in 1 .. MaxNumPages
  /\ lru_mutex = 0
  /\ rcall = NoCall
  /\ older = {}
  /\ NoTree

\* the bodies of Victim, Pin and Unpin, run while lru_mutex is held
VictimLocked ==
  LET v == Victim(unpinned_frames) IN
  /\ unpinned_frames' = v.rest
  /\ ReplacerRecord([NoCall EXCEPT !.kind = "victim",
                                   !.frame_id = v.frame_id,
                                   !.found = v.found,
                                   !.pos = IndexOf(unpinned_frames,
                                                   v.frame_id)])

PinLocked(frame_id) ==
  /\ unpinned_frames' = Pin(unpinned_frames, frame_id)
  /\ ReplacerRecord([NoCall EXCEPT !.kind = "pin",
                                   !.frame_id = frame_id,
                                   !.found = InSeq(unpinned_frames, frame_id),
                                   !.pos = IndexOf(unpinned_frames,
                                                   frame_id)])

UnpinLocked(frame_id) ==
  /\ unpinned_frames' = Unpin(unpinned_frames, frame_id)
  /\ ReplacerRecord([NoCall EXCEPT !.kind = "unpin",
                                   !.frame_id = frame_id,
                                   !.found = InSeq(unpinned_frames, frame_id),
                                   !.pos = IndexOf(unpinned_frames,
                                                   frame_id)])

\* one client: std::lock_guard takes and drops lru_mutex within the call
VictimCall == lru_mutex = 0 /\ VictimLocked /\ lru_mutex' = 0

PinCall(frame_id) == lru_mutex = 0 /\ PinLocked(frame_id) /\ lru_mutex' = 0

UnpinCall(frame_id) ==
  lru_mutex = 0 /\ UnpinLocked(frame_id) /\ lru_mutex' = 0

\* LRUReplacer::Size takes no lock.  Run while another thread is inside a
\* locked call it is a data race on the vector: any value may come back.
SizeCall ==
  \E n \in 0 .. (MaxNumPages + 1) :
    /\ lru_mutex = 0 => n = Size(unpinned_frames)
    /\ ReplacerRecord([NoCall EXCEPT !.kind = "size", !.size = n,
                                     !.raced = (lru_mutex # 0)])
    /\ UNCHANGED <<unpinned_frames, lru_mutex>>

NextReplacer ==
  \/ VictimCall
  \/ \E f \in FrameArgs : PinCall(f)
  \/ \E f \in FrameArgs : UnpinCall(f)
  \/ SizeCall

SpecReplacer == InitReplacer /\ [][NextReplacer]_vars

\* several threads: a thread enters a locked call (Lock), runs its body and
\* leaves; Size is called by a thread that is not inside a locked call
Lock(t) ==
  /\ lru_mutex = 0
  /\ lru_mutex' = t
  /\ UNCHANGED <<unpinned_frames, rcall, older, num_pages, pool_rest, tree,
                 caller>>

ThreadVictim(t) == lru_mutex = t /\ VictimLocked /\ lru_mutex' = 0

ThreadPin(t, frame_id) ==
  lru_mutex = t /\ PinLocked(frame_id) /\ lru_mutex' = 0

ThreadUnpin(t, frame_id) ==
  lru_mutex = t /\ UnpinLocked(frame_id) /\ lru_mutex' = 0

ThreadSize(t) == lru_mutex # t /\ SizeCall

NextReplacerMT ==
  \/ \E t \in Threads : Lock(t)
  \/ \E t \in Threads : ThreadVictim(t)
  \/ \E t \in Threads, f \in FrameArgs : ThreadPin(t, f)
  \/ \E t \in Threads, f \in FrameArgs : ThreadUnpin(t, f)
  \/ \E t \in Threads : ThreadSize(t)

SpecReplacerMT == InitReplacer /\ [][NextReplacerMT]_vars

\* ---- one B+ tree page and its index accessors ---------------------------------
Keys == 1 .. MaxKey

\* strictly increasing key sequences of length n over Keys
SortedKeys(n) ==
  {ks \in [1 .. n -> Keys] : \A i \in 1 .. (n - 1) : ks[i] < ks[i + 1]}

\* leaf pages: sorted unique keys, any record ids
LeafPages ==
  UNION {{[page_type |-> "LEAF_PAGE",
           array |-> [i \in 1 .. n |-> [key |-> ks[i], value |-> vs[i]]]] :
            ks \in SortedKeys(n), vs \in [1 .. n -> Values]} :
         n \in 0 .. MaxSize}

\* internal pages: array[0] has no key (zeroed), array[1 ..] sorted unique
\* keys, the values are page ids of distinct children
InternalPages ==
  UNION {{[page_type |-> "INTERNAL_PAGE",
           array |-> [i \in 1 .. n |->
                        [key |-> IF i = 1 THEN DefaultKey ELSE ks[i - 1],
                         value |-> vs[i]]]] :
            ks \in SortedKeys(IF n = 0 THEN 0 ELSE n - 1),
            vs \in {w \in [1 .. n -> PageIds] :
                      \A i, j \in 1 .. n : w[i] = w[j] => i = j}} :
         n \in 0 .. Min(MaxSize, MaxPages)}

GetSize(n) == Len(n.array)

\* index < 0 || index >= GetSize()
OutOfRange(n, index) == index < 0 \/ index >= GetSize(n)

\* array[index]
At(n, index) == n.array[index + 1]

\* static MappingType dummy_item{}
dummy_item == [key |-> DefaultKey, value |-> INVALID_PAGE_ID]

\* indices a caller may pass: one below and one above every valid index
IndexArgs == -1 .. MaxSize

Access(a) ==
  /\ acc' = a
  /\ UNCHANGED <<bpm, pool_rest, lru_client, caller, recipient, ref>>

InitNode ==
  /\ track = "pins"
  /\ pool_size = 1
  /\ next_page_id = 0
  /\ PoolInit
  /\ num_pages = pool_size
  /\ lru_mutex = 0
  /\ rcall = NoCall
  /\ older = {}
  /\ node \in LeafPages \cup InternalPages
  /\ acc = NoAccess
  /\ recipient = EmptyLeaf
  /\ ref = {}
  /\ latch = 0
  /\ move = NoMove

\* throw Exception(ExceptionType::OUT_OF_RANGE, ...): nothing was done
Throw(fn, index) ==
  /\ Access([NoAccess EXCEPT !.fn = fn, !.index = index, !.threw = TRUE])
  /\ node' = node

Return(fn, index, x) ==
  Access([NoAccess EXCEPT !.fn = fn, !.index = index, !.out = <<x>>])

InternalKeyAt(index) ==
  /\ node.page_type = "INTERNAL_PAGE"
  /\ IF OutOfRange(node, index) THEN Throw("KeyAt", index)
     ELSE Return("KeyAt", index, At(node, index).key) /\ node' = node

InternalSetKeyAt(index, key) ==
  /\ node.page_type = "INTERNAL_PAGE"
  /\ IF OutOfRange(node, index) THEN Throw("SetKeyAt", index)
     ELSE /\ Access([NoAccess EXCEPT !.fn = "SetKeyAt", !.index = index])
          /\ node' = [node EXCEPT !.array[index + 1].key = key]

InternalValueAt(index) ==
  /\ node.page_type = "INTERNAL_PAGE"
  /\ IF OutOfRange(node, index) THEN Throw("ValueAt", index)
     ELSE Return("ValueAt", index, At(node, index).value) /\ node' = node

\* std::move(array + index + 1, array + size, array + index); IncreaseSize(-1)
InternalRemove(index) ==
  /\ node.page_type = "INTERNAL_PAGE"
  /\ IF OutOfRange(node, index) THEN Throw("Remove", index)
     ELSE /\ Access([NoAccess EXCEPT !.fn = "Remove", !.index = index])
          /\ node' = [node EXCEPT !.array =
                        SubSeq(@, 1, index) \o SubSeq(@, index + 2, Len(@))]

RECURSIVE LowerBound(_, _, _, _)
\* std::lower_bound over array[first .. first + count) with the comparator
\* "entry key < key": halve the range until it is empty
LowerBound(n, first, count, key) ==
  IF count <= 0 THEN first
  ELSE LET step == count \div 2
           it == first + step
       IN IF At(n, it).key < key
            THEN LowerBound(n, it + 1, count - (step + 1), key)
            ELSE LowerBound(n, first, step, key)

\* the bug "return k_it->second" for a key between two separators
Lookup_NoPrev(n, key) ==
  LET k_it == LowerBound(n, 1, GetSize(n) - 1, key) IN
  IF k_it = GetSize(n) THEN At(n, GetSize(n) - 1).value
  ELSE At(n, k_it).value

\* Lookup on a page with at least one entry: search array + 1 .. array + size
Lookup(n, key) ==
  LET k_it == LowerBound(n, 1, GetSize(n) - 1, key) IN
  IF k_it = GetSize(n) THEN At(n, GetSize(n) - 1).value
  ELSE IF At(n, k_it).key = key THEN At(n, k_it).value
  ELSE At(n, k_it - 1).value

\* on a page of size 0 the range array + 1 .. array + 0 is not a range and
\* the entry read lies outside the page's entries: any child id may come back
InternalLookup(key) ==
  /\ node.page_type = "INTERNAL_PAGE"
  /\ node' = node
  /\ IF GetSize(node) = 0
       THEN \E x \in PageIds \cup {INVALID_PAGE_ID} : Return("Lookup", key, x)
       ELSE Return("Lookup", key, Lookup(node, key))

\* out of range: "return default key instead of crashing"
LeafKeyAt(index) ==
  /\ node.page_type = "LEAF_PAGE"
  /\ node' = node
  /\ IF OutOfRange(node, index) THEN Return("KeyAt", index, DefaultKey)
     ELSE Return("KeyAt", index, At(node, index).key)

\* out of range: "return first element as fallback", or dummy_item
LeafGetItem(index) ==
  /\ node.page_type = "LEAF_PAGE"
  /\ node' = node
  /\ IF OutOfRange(node, index)
       THEN IF GetSize(node) > 0 THEN Return("GetItem", index, At(node, 0))
            ELSE Return("GetItem", index, dummy_item)
       ELSE Return("GetItem", index, At(node, index))

NextNode ==
  \/ \E i \in IndexArgs : InternalKeyAt(i)
  \/ \E i \in IndexArgs, k \in Keys : InternalSetKeyAt(i, k)
  \/ \E i \in IndexArgs : InternalValueAt(i)
  \/ \E i \in IndexArgs : InternalRemove(i)
  \/ \E k \in Keys : InternalLookup(k)
  \/ \E i \in IndexArgs : LeafKeyAt(i)
  \/ \E i \in IndexArgs : LeafGetItem(i)

SpecNode == InitNode /\ [][NextNode]_vars

\* ---- internal-page moves: the children are given their new parent -------------
\* the child page ids an operation hands over, in the order it adopts them
\* MoveHalfTo: array[size/2 ..];  MoveAllTo: all;  MoveFirstToEndOf: array[0];
\* MoveLastToFrontOf: array[size-1];  an empty page hands over nothing
MovedChildren(kind, n) ==
  LET size == GetSize(n)
      from == IF kind = "MoveHalfTo" THEN (size \div 2) + 1
              ELSE IF kind = "MoveLastToFrontOf" THEN size
              ELSE 1
      to == IF kind = "MoveFirstToEndOf" THEN Min(1, size) ELSE size
  IN IF size = 0 THEN <<>>
     ELSE [i \in 1 .. (to - from + 1) |-> n.array[from + i - 1].value]

MoveKinds ==
  {"MoveHalfTo", "MoveAllTo", "MoveFirstToEndOf", "MoveLastToFrontOf"}

\* what the operations can hand over, for every internal page
Handovers ==
  {[kind |-> k, children |-> MovedChildren(k, n)] :
     k \in MoveKinds, n \in InternalPages}

\* no history is recorded (track is neither "pins" nor "data")
InitMove ==
  /\ track = "none"
  /\ PoolFresh
  /\ ReplacerInit
  /\ NoTree

\* what a page holds: its buffer if it is resident, else what is on disk
Content(page_id) ==
  IF page_table[page_id] # NoFrame THEN pages[page_table[page_id]].data
  ELSE disk[page_id]

\* the bug "UnpinPage(page->GetPageId(), false)"
AdoptDirty_Clean == FALSE

\* buffer_pool_manager->UnpinPage(page->GetPageId(), true)
AdoptDirty == TRUE

\* the operation has copied the entries and starts on the children; v stands
\* for the page id of their new parent
StartMove(kind, cs, v) ==
  LET here == {cs[i] : i \in {j \in 1 .. Len(cs) :
                                 page_table[cs[j]] # NoFrame}}
  IN
  /\ Idle
  /\ ~crashed
  /\ cs # <<>>
  /\ \A i \in 1 .. Len(cs) : cs[i] \in Allocated
  /\ move' = [NoMove EXCEPT
                !.kind = kind, !.stage = "fetch", !.children = cs,
                !.todo = cs, !.parent = v,
                !.before = {<<c, pages[page_table[c]].pin_count>> : c \in here},
                !.evictable = {c \in here :
                                 InSeq(unpinned_frames, page_table[c])},
                !.kept = {<<p, Content(p)>> :
                            p \in Allocated \ {cs[i] : i \in 1 .. Len(cs)}}]
  /\ UNCHANGED <<bpm, pool_rest, lru_client, tree, latch>>

\* auto *page = buffer_pool_manager->FetchPage(child)
AdoptFetch ==
  /\ move.stage = "fetch"
  /\ latch = 0
  /\ LET c == Head(move.todo) IN
     /\ FetchPageLatched(c)
     /\ move' = [move EXCEPT
                   !.cur = c,
                   !.stage = IF page_table'[c] # NoFrame THEN "set"
                             ELSE "null",
                   !.fetches = IF page_table'[c] # NoFrame THEN @ + 1 ELSE @]
  /\ UNCHANGED latch

\* node->SetParentPageId(...) writes into the child's buffer
AdoptSetParent ==
  /\ move.stage = "set"
  /\ WriteBuffer(move.cur, move.parent)
  /\ move' = [move EXCEPT !.stage = "unpin"]
  /\ UNCHANGED latch

\* buffer_pool_manager->UnpinPage(child, true)
AdoptUnpin ==
  /\ move.stage = "unpin"
  /\ latch = 0
  /\ UnpinPageLatched(move.cur, AdoptDirty)
  /\ move' = [move EXCEPT
                !.todo = Tail(@),
                !.cur = INVALID_PAGE_ID,
                !.stage = IF Tail(move.todo) = <<>> THEN "done" ELSE "fetch",
                !.unpins = @ + 1]
  /\ UNCHANGED latch

\* FetchPage returned nullptr.  MoveAllTo throws OUT_OF_MEMORY; CopyNFrom,
\* CopyLastFrom and CopyFirstFrom use the pointer unchecked and the process
\* dies writing through it.
FetchFailed ==
  /\ move.stage = "null"
  /\ ~crashed
  /\ IF move.kind = "MoveAllTo"
       THEN move' = NoMove /\ crashed' = crashed
       ELSE move' = move /\ crashed' = TRUE
  /\ UNCHANGED <<bpm, lru_client, tree, latch, pool_size, op, acquired,
                 released, watched, durable, reloaded, retry, track>>

\* the operation returns
EndMove ==
  /\ move.stage = "done"
  /\ move' = NoMove
  /\ UNCHANGED <<bpm, pool_rest, lru_client, tree, latch>>

NextMove ==
  \/ \E p \in PageIds : FetchPageImpl(p)
  \/ \E p \in PageIds, d \in BOOLEAN : UnpinPageImpl(p, d)
  \/ NewPageImpl
  \/ \E h \in Handovers, v \in Values : StartMove(h.kind, h.children, v)
  \/ AdoptFetch
  \/ AdoptSetParent
  \/ AdoptUnpin
  \/ FetchFailed
  \/ EndMove

SpecMove == InitMove /\ [][NextMove]_vars

\* ---- two internal pages and the operations that move entries ------------------------
PairKeys == 1 .. MaxPairKey

\* internal pages over PairKeys whose children are first_child, first_child + 1, ...
InternalPagesFrom(first_child) ==
  UNION {{[page_type |-> "INTERNAL_PAGE",
           array |-> [i \in 1 .. n |->
                        [key |-> IF i = 1 THEN DefaultKey ELSE ks[i - 1],
                         value |-> first_child + i - 1]]] :
            ks \in {w \in [1 .. (IF n = 0 THEN 0 ELSE n - 1) -> PairKeys] :
                      \A i \in 1 .. (n - 2) : w[i] < w[i + 1]}} :
         n \in 0 .. MaxSize}

\* a donor page (node) and a recipient page with other children
InitInternalPair ==
  /\ track = "none"
  /\ pool_size = 1
  /\ PoolFresh
  /\ ReplacerInit
  /\ node \in InternalPagesFrom(0)
  /\ recipient \in InternalPagesFrom(MaxSize)
  /\ acc = NoAccess
  /\ ref = {}
  /\ latch = 0
  /\ move = NoMove

\* a move operation called on node: what was called, with which key, and
\* how it ended (threw: an exception left it; died: it wrote through the
\* null pointer FetchPage returned)
PairCall(fn, key, threw, died) ==
  /\ ~crashed
  /\ acc' = [NoAccess EXCEPT !.fn = fn, !.index = key, !.threw = threw]
  /\ crashed' = died
  /\ UNCHANGED <<bpm, lru_client, caller, pool_size, op, acquired, released,
                 watched, durable, reloaded, retry, track, ref>>

\* the bug "start_idx = (GetSize() + 1) / 2"
HalfStart_RoundUp(size) == (size + 1) \div 2

\* MoveHalfTo: auto start_idx = GetSize() / 2
HalfStart(size) == size \div 2

\* MoveHalfTo.  fetched: every FetchPage of CopyNFrom returned a page; if one
\* did not, CopyNFrom dies before IncreaseSize and before the donor's SetSize
InternalMoveHalfTo(fetched) ==
  LET start_idx == HalfStart(GetSize(node))
      items == SubSeq(node.array, start_idx + 1, GetSize(node))
      died == items # <<>> /\ ~fetched
  IN /\ node.page_type = "INTERNAL_PAGE"
     /\ PairCall("MoveHalfTo", DefaultKey, FALSE, died)
     /\ recipient' = IF died THEN recipient
                     ELSE [recipient EXCEPT !.array = @ \o items]
     /\ node' = IF died THEN node
                ELSE [node EXCEPT !.array = SubSeq(@, 1, start_idx)]

\* the bug "recipient->array[start_idx] = array[0]": the dummy key moves
Merged_KeepsDummyKey(into, from, middle_key) == into \o from

\* MoveAllTo: the recipient's entries, then (middle_key, array[0].second),
\* then array[1 .. size)
Merged(into, from, middle_key) ==
  into \o <<[key |-> middle_key, value |-> from[1].value]>> \o Tail(from)

\* MoveAllTo.  A FetchPage that returns nullptr makes it throw OUT_OF_MEMORY
\* before either size is set.
InternalMoveAllTo(middle_key, fetched) ==
  /\ node.page_type = "INTERNAL_PAGE"
  /\ IF GetSize(node) = 0
       THEN /\ PairCall("MoveAllTo", middle_key, FALSE, FALSE)
            /\ UNCHANGED <<node, recipient>>
       ELSE IF ~fetched
         THEN /\ PairCall("MoveAllTo", middle_key, TRUE, FALSE)
              /\ UNCHANGED <<node, recipient>>
         ELSE /\ PairCall("MoveAllTo", middle_key, FALSE, FALSE)
              /\ recipient' = [recipient EXCEPT !.array =
                                 Merged(@, node.array, middle_key)]
              /\ node' = [node EXCEPT !.array = <<>>]

\* MoveFirstToEndOf and CopyLastFrom on a donor that has an entry: both
\* sizes are set before FetchPage is called
InternalMoveFirstToEndOf(middle_key, fetched) ==
  /\ node.page_type = "INTERNAL_PAGE"
  /\ GetSize(node) > 0
  /\ PairCall("MoveFirstToEndOf", middle_key, FALSE, ~fetched)
  /\ node' = [node EXCEPT !.array = Tail(@)]
  /\ recipient' = [recipient EXCEPT !.array =
                     Append(@, [key |-> middle_key,
                                value |-> At(node, 0).value])]

\* CopyFirstFrom: std::move_backward(array, array + size, array + size + 1);
\* *array = pair
InternalCopyFirstFrom(arr, pair) == <<pair>> \o arr

\* MoveLastToFrontOf and CopyFirstFrom on a donor that has an entry
InternalMoveLastToFrontOf(middle_key, fetched) ==
  /\ node.page_type = "INTERNAL_PAGE"
  /\ GetSize(node) > 0
  /\ PairCall("MoveLastToFrontOf", middle_key, FALSE, ~fetched)
  /\ node' = [node EXCEPT !.array = SubSeq(@, 1, Len(@) - 1)]
  /\ recipient' = [recipient EXCEPT !.array =
                     InternalCopyFirstFrom(@,
                       [key |-> middle_key,
                        value |-> At(node, GetSize(node) - 1).value])]

NextInternalPair ==
  \/ \E b \in BOOLEAN : InternalMoveHalfTo(b)
  \/ \E k \in PairKeys, b \in BOOLEAN : InternalMoveAllTo(k, b)
  \/ \E k \in PairKeys, b \in BOOLEAN : InternalMoveFirstToEndOf(k, b)
  \/ \E k \in PairKeys, b \in BOOLEAN : InternalMoveLastToFrontOf(k, b)

SpecInternalPair == InitInternalPair /\ [][NextInternalPair]_vars

\* ---- one leaf page: insert, remove, lookup ------------------------------------------
\* Init(page_id, parent_id, max_size): an empty leaf without a next leaf
LeafInit(page_id, max_size) ==
  [page_type |-> "LEAF_PAGE", array |-> <<>>, page_id |-> page_id,
   max_size |-> max_size, next_page_id |-> INVALID_PAGE_ID]

GetMaxSize(n) == n.max_size

RECURSIVE KeyIndex_PastEqual(_, _, _, _)
\* the bug "comp_result <= 0": the search steps over an equal key
KeyIndex_PastEqual(n, left, right, key) ==
  IF left >= right THEN left
  ELSE LET mid == left + ((right - left) \div 2) IN
       IF At(n, mid).key <= key THEN KeyIndex_PastEqual(n, mid + 1, right, key)
       ELSE KeyIndex_PastEqual(n, left, mid, key)

RECURSIVE KeyIndex(_, _, _, _)
\* KeyIndex: the loop "while (left < right)", called with left = 0 and
\* right = GetSize()
KeyIndex(n, left, right, key) ==
  IF left >= right THEN left
  ELSE LET mid == left + ((right - left) \div 2) IN
       IF At(n, mid).key < key THEN KeyIndex(n, mid + 1, right, key)
       ELSE KeyIndex(n, left, mid, key)

\* the reference map: the first insert of a key wins, an insert into a full
\* map is ignored
RefInsert(m, max_size, key, value) ==
  IF (\E pr \in m : pr[1] = key) \/ Cardinality(m) >= max_size THEN m
  ELSE m \cup {<<key, value>>}

RefRemove(m, key) == {pr \in m : pr[1] # key}

InitLeaf ==
  /\ track = "none"
  /\ pool_size = 1
  /\ PoolFresh
  /\ ReplacerInit
  /\ node \in {LeafInit(0, m) : m \in 1 .. MaxSize}
  /\ recipient = EmptyLeaf
  /\ acc = NoAccess
  /\ ref = {}
  /\ latch = 0
  /\ move = NoMove

\* a call on the leaf: its key argument and what it returned
LeafCall(fn, key, out) ==
  /\ acc' = [NoAccess EXCEPT !.fn = fn, !.index = key, !.out = out]
  /\ UNCHANGED <<bpm, pool_rest, lru_client, caller, recipient>>

LeafInsert(key, value) ==
  LET index == KeyIndex(node, 0, GetSize(node), key) IN
  /\ node.page_type = "LEAF_PAGE"
  /\ ref' = RefInsert(ref, GetMaxSize(node), key, value)
  /\ IF index < GetSize(node) /\ At(node, index).key = key
       THEN node' = node /\ LeafCall("Insert", key, <<GetSize(node)>>)
     ELSE IF GetSize(node) >= GetMaxSize(node)
       THEN node' = node /\ LeafCall("Insert", key, <<GetSize(node)>>)
     ELSE /\ node' = [node EXCEPT !.array =
                        SubSeq(@, 1, index)
                          \o <<[key |-> key, value |-> value]>>
                          \o SubSeq(@, index + 1, Len(@))]
          /\ LeafCall("Insert", key, <<GetSize(node) + 1>>)

\* the bug "shift from index + 1": the entry after the key is dropped instead
Erased_Next(arr, index) ==
  IF index + 2 <= Len(arr)
    THEN SubSeq(arr, 1, index + 1) \o SubSeq(arr, index + 3, Len(arr))
    ELSE SubSeq(arr, 1, index)

\* RemoveAndDeleteRecord: array[i] = array[i + 1] for i in [index, size - 1)
Erased(arr, index) == SubSeq(arr, 1, index) \o SubSeq(arr, index + 2, Len(arr))

LeafRemoveAndDeleteRecord(key) ==
  LET index == KeyIndex(node, 0, GetSize(node), key) IN
  /\ node.page_type = "LEAF_PAGE"
  /\ ref' = RefRemove(ref, key)
  /\ IF index >= GetSize(node) \/ At(node, index).key # key
       THEN /\ node' = node
            /\ LeafCall("RemoveAndDeleteRecord", key, <<GetSize(node)>>)
       ELSE /\ node' = [node EXCEPT !.array = Erased(@, index)]
            /\ LeafCall("RemoveAndDeleteRecord", key, <<GetSize(node) - 1>>)

\* Lookup with a value pointer that is not null: <<TRUE, *value>> or <<FALSE>>
LookupResult(n, key) ==
  LET index == KeyIndex(n, 0, GetSize(n), key)
      hits == {i \in 0 .. (GetSize(n) - 1) : At(n, i).key = key}
  IN IF index < GetSize(n) /\ At(n, index).key = key
       THEN <<TRUE, At(n, index).value>>
     ELSE IF hits # {}
       THEN <<TRUE, At(n, CHOOSE i \in hits : \A j \in hits : i <= j).value>>
     ELSE <<FALSE>>

LeafLookup(key) ==
  /\ node.page_type = "LEAF_PAGE"
  /\ LeafCall("Lookup", key, LookupResult(node, key))
  /\ UNCHANGED <<node, ref>>

NextLeaf ==
  \/ \E k \in PairKeys, v \in Values : LeafInsert(k, v)
  \/ \E k \in PairKeys : LeafRemoveAndDeleteRecord(k)
  \/ \E k \in PairKeys : LeafLookup(k)

SpecLeaf == InitLeaf /\ [][NextLeaf]_vars

\* ---- two leaf pages and the operations that move entries ----------------------------
\* leaves with page id page_id, max_size MaxSize and at most that many
\* entries, keys ascending, every record id equal to value
LeafPagesOf(page_id, value) ==
  UNION {{[LeafInit(page_id, MaxSize) EXCEPT
             !.array = [i \in 1 .. n |-> [key |-> ks[i], value |-> value]]] :
            ks \in {w \in [1 .. n -> PairKeys] :
                      \A i \in 1 .. (n - 1) : w[i] < w[i + 1]}} :
         n \in 0 .. MaxSize}

\* a donor leaf (page 1) and a recipient leaf (page 0) that share no key;
\* page 2 stands for the rest of the leaf chain
InitLeafPair ==
  /\ track = "none"
  /\ pool_size = 1
  /\ PoolFresh
  /\ ReplacerInit
  /\ \E d \in LeafPagesOf(1, 0), r \in LeafPagesOf(0, 1) :
       /\ \A i \in 1 .. Len(d.array), j \in 1 .. Len(r.array) :
            d.array[i].key # r.array[j].key
       /\ \E dn \in {2, INVALID_PAGE_ID}, rn \in {1, 2, INVALID_PAGE_ID} :
            /\ node = [d EXCEPT !.next_page_id = dn]
            /\ recipient = [r EXCEPT !.next_page_id = rn]
  /\ acc = NoAccess
  /\ ref = {}
  /\ latch = 0
  /\ move = NoMove

\* MoveHalfTo: the last total_size / 2 entries are written to the recipient
\* from its index 0 and the recipient's size is set to their number
LeafMoveHalfTo ==
  LET total_size == GetSize(node)
      move_size == total_size \div 2
      start_index == total_size - move_size
  IN /\ node.page_type = "LEAF_PAGE"
     /\ PairCall("MoveHalfTo", DefaultKey, FALSE, FALSE)
     /\ recipient' = [recipient EXCEPT !.array =
                        SubSeq(node.array, start_index + 1, total_size)]
     /\ node' = [node EXCEPT !.array = SubSeq(@, 1, start_index)]

\* the bug "no SetNextPageId": the recipient keeps pointing at the donor
NextAfterMerge_Kept(into, from) == into.next_page_id

\* MoveAllTo: recipient->SetNextPageId(GetNextPageId())
NextAfterMerge(into, from) == from.next_page_id

\* MoveAllTo: CopyNFrom appends at the recipient's size and checks no bound
LeafMoveAllTo ==
  /\ node.page_type = "LEAF_PAGE"
  /\ PairCall("MoveAllTo", DefaultKey, FALSE, FALSE)
  /\ recipient' = [recipient EXCEPT
                     !.array = @ \o node.array,
                     !.next_page_id = NextAfterMerge(recipient, node)]
  /\ node' = [node EXCEPT !.array = <<>>]

\* CopyLastFrom: if (current_size >= GetMaxSize()) return;
LeafCopyLastFrom(n, item) ==
  IF GetSize(n) >= GetMaxSize(n) THEN n
  ELSE [n EXCEPT !.array = Append(@, item)]

LeafMoveFirstToEndOf ==
  /\ node.page_type = "LEAF_PAGE"
  /\ PairCall("MoveFirstToEndOf", DefaultKey, FALSE, FALSE)
  /\ IF GetSize(node) = 0 THEN UNCHANGED <<node, recipient>>
     ELSE /\ node' = [node EXCEPT !.array = Tail(@)]
          /\ recipient' = LeafCopyLastFrom(recipient, At(node, 0))

\* CopyFirstFrom: if (current_size >= GetMaxSize()) return;
LeafCopyFirstFrom(n, item) ==
  IF GetSize(n) >= GetMaxSize(n) THEN n
  ELSE [n EXCEPT !.array = <<item>> \o @]

LeafMoveLastToFrontOf ==
  /\ node.page_type = "LEAF_PAGE"
  /\ PairCall("MoveLastToFrontOf", DefaultKey, FALSE, FALSE)
  /\ IF GetSize(node) = 0 THEN UNCHANGED <<node, recipient>>
     ELSE /\ node' = [node EXCEPT !.array = SubSeq(@, 1, Len(@) - 1)]
          /\ recipient' = LeafCopyFirstFrom(recipient,
                                            At(node, GetSize(node) - 1))

NextLeafPair ==
  \/ LeafMoveHalfTo
  \/ LeafMoveAllTo
  \/ LeafMoveFirstToEndOf
  \/ LeafMoveLastToFrontOf

SpecLeafPair == InitLeafPair /\ [][NextLeafPair]_vars

\* a pair of pages of either kind
InitPair == InitInternalPair \/ InitLeafPair

NextPair == NextInternalPair \/ NextLeafPair

SpecPair == InitPair /\ [][NextPair]_vars

\* ---- a page that splits into a new page ---------------------------------------------
\* ascending key sequences of length n over PairKeys
AscendingPairKeys(n) ==
  {w \in [1 .. n -> PairKeys] : \A i \in 1 .. (n - 1) : w[i] < w[i + 1]}

\* Init(page_id, parent_id, max_size) of an internal page
InternalInit(max_size) ==
  [page_type |-> "INTERNAL_PAGE", array |-> <<>>, max_size |-> max_size]

\* a leaf that Insert has filled to max_size and a new leaf, or an internal
\* page that holds max_size + 1 entries and a new internal page
InitSplit ==
  /\ track = "none"
  /\ pool_size = 1
  /\ PoolFresh
  /\ ReplacerInit
  /\ \E m \in 2 .. MaxSplitSize :
       \/ /\ \E ks \in AscendingPairKeys(m), vs \in [1 .. m -> Values] :
               node = [LeafInit(1, m) EXCEPT
                         !.array = [i \in 1 .. m |->
                                      [key |-> ks[i], value |-> vs[i]]]]
          /\ recipient = LeafInit(0, m)
       \/ /\ \E ks \in AscendingPairKeys(m) :
               node = [InternalInit(m) EXCEPT
                         !.array = [i \in 1 .. (m + 1) |->
                                      [key |-> IF i = 1 THEN DefaultKey
                                               ELSE ks[i - 1],
                                       value |-> i - 1]]]
          /\ recipient = InternalInit(m)
  /\ acc = NoAccess
  /\ ref = {}
  /\ latch = 0
  /\ move = NoMove

NextSplit ==
  \/ LeafMoveHalfTo
  \/ \E b \in BOOLEAN : InternalMoveHalfTo(b)

SpecSplit == InitSplit /\ [][NextSplit]_vars

\* ---- vocabulary of the claims ------------------------------------------------
Resident(page_id) == page_table[page_id] # NoFrame

ResidentFrames == {page_table[p] : p \in {q \in PageIds : Resident(q)}}

\* the step taken is a call of fetch on a page that is not resident / new_page
FetchMissStep == op'.kind = "fetch" /\ ~Resident(op'.page_id)

NewPageStep == op'.kind = "new"

\* the step taken is unpin(page_id, _) on a page that is resident before it
UnpinResidentStep == op'.kind = "unpin" /\ Resident(op'.page_id)

\* C1: for every frame that holds a resident page, the frame is tracked by the
\* replacer if and only if its pin_count is 0.
C1_ReplacerIffUnpinned ==
  \A f \in ResidentFrames :
    InSeq(unpinned_frames, f) <=> (pages[f].pin_count = 0)

\* C2: a page with more successful fetch/new_page calls than successful unpin
\* calls is not evicted by any step: it stays resident in the same frame.
C2_PinnedStaysResident ==
  [][\A f \in ResidentFrames :
       (track = "pins" /\ acquired[f] > released[f])
         => /\ pages'[f].page_id = pages[f].page_id
            /\ page_table'[pages[f].page_id] = f]_vars

\* C3: unpin on a resident page with pin_count > 0 lowers pin_count by exactly
\* one and returns true, and the frame enters the replacer only when the new
\* pin_count is 0.
C3_UnpinDecrements ==
  [][(track = "pins" /\ UnpinResidentStep
        /\ pages[page_table[op'.page_id]].pin_count > 0)
       => LET f == page_table[op'.page_id] IN
          /\ op'.ok
          /\ pages'[f].pin_count = pages[f].pin_count - 1
          /\ InSeq(unpinned_frames', f) => pages'[f].pin_count = 0]_vars

\* C4: unpin returns false and changes nothing when the page is not resident
\* or when all pins of the resident page have been released already (so a
\* second unpin after a single fetch returns false).
C4_UnpinRejects ==
  [][(track = "pins" /\ op'.kind = "unpin"
        /\ (~Resident(op'.page_id)
            \/ LET f == page_table[op'.page_id]
               IN pages[f].pin_count = 0 \/ acquired[f] <= released[f]))
       => (~op'.ok /\ ~crashed' /\ UNCHANGED bpm)]_vars

\* C5: with the free list and the replacer both empty, fetch of a page that
\* is not resident and new_page return none and leave page table, frames,
\* free list, replacer, disk and the disk manager's next page id unchanged,
\* with no disk read or write.
C5_ExhaustedLeavesState ==
  [][(track = "pins" /\ free_list = <<>> /\ unpinned_frames = <<>>
        /\ (FetchMissStep \/ NewPageStep))
       => /\ ~op'.ok
          /\ op'.frame = NoFrame
          /\ op'.read = INVALID_PAGE_ID
          /\ op'.wrote = INVALID_PAGE_ID
          /\ UNCHANGED bpm]_vars

C5_Witness ==
  /\ op.kind = "new" /\ ~op.ok
  /\ free_list = <<>> /\ unpinned_frames = <<>>
  /\ next_page_id < MaxPages
  /\ \A f \in Frames : pages[f].pin_count > 0

\* C6: with every frame holding a page that was fetched and never unpinned, a
\* fetch of a further page returns none; once one resident page with a single
\* pin has been unpinned, the retried fetch returns the frame of that page,
\* now holding the requested page with pin_count 1, and the page evicted is
\* the one that was unpinned.
C6_RetryAfterUnpin ==
  [][track = "pins" =>
       /\ (AllHeldNoUnpin /\ FetchMissStep) => ~op'.ok
       /\ (retry.stage = 2 /\ acquired[op.frame] = 1
             /\ op'.kind = "fetch" /\ op'.page_id = retry.page_id)
            => /\ op'.ok
               /\ op'.frame = op.frame
               /\ pages'[op'.frame].page_id = retry.page_id
               /\ pages'[op'.frame].pin_count = 1
               /\ op'.evicted = op.page_id
               /\ page_table'[op.page_id] = NoFrame]_vars

C6_Witness ==
  /\ retry.stage = 3
  /\ op.kind = "fetch" /\ op.ok /\ op.evicted # INVALID_PAGE_ID
  /\ pages[op.frame].page_id = retry.page_id
  /\ pool_size = MaxPoolSize

\* C7: content handed over by unpin(dirty = true) survives eviction: while the
\* page is out of the pool the disk holds that content, and once the page is
\* back in the pool its buffer holds it (pool size 1 included).
C7_DirtyRoundTrip ==
  \A content \in durable :
    IF Resident(watched)
      THEN pages[page_table[watched]].data = content
      ELSE disk[watched] = content

C7_Witness ==
  /\ track = "data" /\ reloaded
  /\ durable # {} /\ 0 \notin durable
  /\ Resident(watched)
  /\ pages[page_table[watched]].data \in durable
  /\ pool_size = 1

\* C8: while the free list is not empty, a fetch miss and new_page take the
\* front frame of the free list: the replacer is not asked for a victim, no
\* resident page loses its mapping and nothing is written to disk.
C8_FreeListFirst ==
  [][(track = "pins" /\ free_list # <<>> /\ (FetchMissStep \/ NewPageStep))
       => /\ op'.ok
          /\ op'.frame = Head(free_list)
          /\ free_list' = Tail(free_list)
          /\ ~op'.victim_called
          /\ op'.evicted = INVALID_PAGE_ID
          /\ op'.wrote = INVALID_PAGE_ID
          /\ disk' = disk
          /\ \A p \in PageIds :
               Resident(p) => page_table'[p] = page_table[p]]_vars

C8_Witness ==
  /\ op.kind = "fetch" /\ op.miss /\ op.ok
  /\ ~op.victim_called
  /\ unpinned_frames # <<>>
  /\ Resident(op.page_id)

\* C9: every page-table entry page_id -> f has pages[f].page_id = page_id, and
\* no two page ids map to the same frame.
C9_PageTableConsistent ==
  /\ \A p \in PageIds : Resident(p) => pages[page_table[p]].page_id = p
  /\ \A p, q \in PageIds :
       (Resident(p) /\ Resident(q) /\ page_table[p] = page_table[q]) => p = q

C9_Witness ==
  /\ track = "pins"
  /\ op.evicted # INVALID_PAGE_ID
  /\ ~Resident(op.evicted)
  /\ page_table[op.page_id] = op.frame
  /\ Cardinality(ResidentFrames) = 2

\* C10: initially the free list holds all pool_size frames and the page table
\* is empty; always, no frame is both in the free list and mapped by the page
\* table, and resident pages + |free list| = pool_size.
FreeListDisjoint ==
  /\ \A i \in 1 .. Len(free_list) : free_list[i] \notin ResidentFrames
  /\ Cardinality({p \in PageIds : Resident(p)}) + Len(free_list) = pool_size

C10_FreeListPartition ==
  /\ (Len(free_list) = pool_size
      /\ {free_list[i] : i \in 1 .. Len(free_list)} = Frames
      /\ \A p \in PageIds : ~Resident(p))
  /\ []FreeListDisjoint

C10_Witness ==
  /\ Len(free_list) = 1
  /\ Cardinality(ResidentFrames) = 1
  /\ pool_size = 2

\* C11: flush(page_id) on a resident page writes the page's buffer to disk
\* whatever its dirty bit, clears is_dirty and returns true.
C11_FlushWritesResident ==
  [][(track = "pins" /\ op'.kind = "flush" /\ Resident(op'.page_id))
       => LET f == page_table[op'.page_id] IN
          /\ op'.ok
          /\ op'.wrote = op'.page_id
          /\ disk'[op'.page_id] = pages[f].data
          /\ ~pages'[f].is_dirty]_vars

\* C12: delete_page returns false, changing nothing, only for a resident page
\* with pin_count > 0; otherwise it returns true, and a resident page (with
\* pin_count 0) loses its page-table entry, leaves the replacer, has its frame
\* reset to the free state and appended to the free list.
C12_DeleteFreesFrame ==
  [][(track = "pins" /\ op'.kind = "delete")
       => LET p == op'.page_id
              f == page_table[p]
          IN
          IF ~Resident(p) THEN op'.ok
          ELSE IF pages[f].pin_count > 0 THEN ~op'.ok /\ UNCHANGED bpm
          ELSE /\ op'.ok
               /\ page_table'[p] = NoFrame
               /\ ~InSeq(unpinned_frames', f)
               /\ pages'[f] = FreshPage
               /\ free_list' = Append(free_list, f)]_vars

\* ---- the replacer on its own ---------------------------------------------------
\* f is tracked and every other tracked frame was inserted after it
Oldest(f) ==
  /\ f \in Tracked(unpinned_frames)
  /\ \A b \in Tracked(unpinned_frames) \ {f} : <<f, b>> \in older

\* C14: victim on a non-empty replacer returns, and removes, the tracked frame
\* whose last insertion by unpin is the oldest, and the size goes down by one;
\* on an empty replacer it returns nothing and changes nothing.
C14_VictimIsOldest ==
  [][rcall'.kind = "victim"
       => IF unpinned_frames = <<>>
            THEN ~rcall'.found /\ unpinned_frames' = unpinned_frames
            ELSE /\ rcall'.found
                 /\ Oldest(rcall'.frame_id)
                 /\ ~InSeq(unpinned_frames', rcall'.frame_id)
                 /\ Size(unpinned_frames') = Size(unpinned_frames) - 1]_vars

\* victim took a frame out of three or more, and the frame it took has a
\* larger id than all that stay (so the order is not that of the ids)
C14_Witness ==
  /\ rcall.kind = "victim"
  /\ rcall.found
  /\ Len(unpinned_frames) >= 2
  /\ \A i \in 1 .. Len(unpinned_frames) : unpinned_frames[i] < rcall.frame_id

NoDuplicates ==
  \A i, j \in 1 .. Len(unpinned_frames) :
    unpinned_frames[i] = unpinned_frames[j] => i = j

\* C15: unpin(f) of a frame that is tracked leaves the sequence as it is, and
\* no frame is ever in the sequence twice.
C15_UnpinIdempotent ==
  /\ []NoDuplicates
  /\ [][(rcall'.kind = "unpin" /\ InSeq(unpinned_frames, rcall'.frame_id))
          => unpinned_frames' = unpinned_frames]_vars

\* unpin was called on a tracked frame that is not the newest one
C15_Witness ==
  /\ rcall.kind = "unpin"
  /\ rcall.pos >= 1
  /\ rcall.pos < Len(unpinned_frames)

Without(s, f) ==
  LET Other(x) == x # f IN SelectSeq(s, Other)

\* C16: pin(f) takes f out of the sequence wherever it stands and keeps the
\* order of the others (nothing changes when f is not tracked); victim only
\* returns tracked frames and only unpin(f) makes f tracked, so f is not
\* returned by victim until it is unpinned again.
C16_PinRemoves ==
  [][/\ rcall'.kind = "pin"
          => unpinned_frames' = Without(unpinned_frames, rcall'.frame_id)
     /\ (rcall'.kind = "victim" /\ rcall'.found)
          => InSeq(unpinned_frames, rcall'.frame_id)
     /\ \A f \in FrameArgs :
          (~InSeq(unpinned_frames, f) /\ InSeq(unpinned_frames', f))
            => (rcall'.kind = "unpin" /\ rcall'.frame_id = f)]_vars

\* pin took the second of at least three tracked frames
C16_Witness ==
  /\ rcall.kind = "pin"
  /\ rcall.pos = 2
  /\ Len(unpinned_frames) >= 2

\* C17: every replacer call, size included, runs while no other thread is
\* inside a locked call, and size returns the length of the sequence.
C17_SizeLinearizable ==
  [][rcall'.kind = "size"
       => ~rcall'.raced /\ rcall'.size = Size(unpinned_frames)]_vars

\* C18: unpin of a negative frame id or of one >= num_pages changes nothing,
\* and no call leaves the replacer with more than num_pages frames (it is
\* built empty, so its size never exceeds num_pages).
C18_BoundedByCapacity ==
  [][/\ (rcall'.kind = "unpin"
          /\ (rcall'.frame_id < 0 \/ rcall'.frame_id >= num_pages))
          => unpinned_frames' = unpinned_frames
     /\ Size(unpinned_frames') <= num_pages]_vars

\* ---- tree pages ------------------------------------------------------------------
\* C19: an index accessor of an internal page (KeyAt, SetKeyAt, ValueAt,
\* Remove) or of a leaf page (KeyAt, GetItem) called with index < 0 or
\* index >= size fails with the out-of-range signal, returns no entry and
\* leaves the page as it was.
C19_AccessorsRejectBadIndex ==
  [][(acc'.fn # "init" /\ OutOfRange(node, acc'.index))
       => /\ acc'.threw
          /\ acc'.out = <<>>
          /\ node' = node]_vars

\* ---- the pool under several threads ----------------------------------------------
\* the invariants of the pool: replacer membership (C1), page table (C9) and
\* free list (C10)
PoolInvariants ==
  /\ C1_ReplacerIffUnpinned
  /\ C9_PageTableConsistent
  /\ FreeListDisjoint

\* C13: under any interleaving of calls by several threads, the pool's state
\* is only changed by the thread that holds the latch, in one piece as it
\* leaves its call (so the calls take effect in the serial order in which
\* they drop the latch), and the pool invariants hold whenever no thread is
\* inside a call.
C13_SerialUnderLatch ==
  [][/\ bpm' # bpm => (latch # 0 /\ latch' = 0)
     /\ latch' = 0 => PoolInvariants']_vars

\* C20: when an internal-page operation that re-parents children (MoveHalfTo,
\* MoveAllTo, MoveFirstToEndOf, MoveLastToFrontOf) is done, it has unpinned
\* as often as it fetched, every moved child that was resident before has
\* the pin_count it had before, and every moved child that was in the
\* replacer before is in the replacer.
C20_MovesRestorePins ==
  move.stage = "done"
    => /\ move.fetches = move.unpins
       /\ \A pr \in move.before :
            Resident(pr[1]) => pages[page_table[pr[1]]].pin_count = pr[2]
       /\ \A c \in move.evictable :
            Resident(c) => InSeq(unpinned_frames, page_table[c])

\* ---- the dirty bit -----------------------------------------------------------------
\* C21: a frame whose page is dirty stays dirty over every call that neither
\* flushes nor evicts that page (in particular unpin(dirty = false) and a
\* fetch hit); a fetch hit changes pin_count of the page's frame and takes
\* the frame out of the replacer, and nothing else: no disk read or write.
C21_DirtySticky ==
  [][track = "pins" =>
       /\ \A f \in Frames :
            (/\ pages[f].is_dirty
             /\ pages[f].page_id # INVALID_PAGE_ID
             /\ pages'[f].page_id = pages[f].page_id
             /\ ~(op'.kind = "flush" /\ op'.page_id = pages[f].page_id))
              => pages'[f].is_dirty
       /\ (op'.kind = "fetch" /\ Resident(op'.page_id))
            => LET f == page_table[op'.page_id] IN
               /\ pages' = [pages EXCEPT ![f].pin_count = pages'[f].pin_count]
               /\ unpinned_frames' = Without(unpinned_frames, f)
               /\ UNCHANGED <<page_table, free_list, disk, next_page_id>>
               /\ op'.read = INVALID_PAGE_ID
               /\ op'.wrote = INVALID_PAGE_ID]_vars

\* unpin(dirty = false) returned true on a resident page that is dirty
C21_Witness ==
  /\ track = "pins"
  /\ op.kind = "unpin"
  /\ op.ok
  /\ ~op.is_dirty
  /\ ~op.miss
  /\ pages[op.frame].page_id = op.page_id
  /\ pages[op.frame].is_dirty

\* ---- internal page lookup ----------------------------------------------------------
\* keys of the entries [1, size) of n are strictly ascending
SeparatorsAscending(n) ==
  \A i \in 1 .. (GetSize(n) - 2) : At(n, i).key < At(n, i + 1).key

\* C22: on an internal page with size >= 2 and strictly ascending keys at
\* entries [1, size), Lookup(key) returns the value of the last entry in
\* [1, size) whose key is <= key, and the value of entry 0 when key is below
\* every separator, whatever key is stored at entry 0.
C22_LookupFindsChild ==
  (/\ acc.fn = "Lookup"
   /\ node.page_type = "INTERNAL_PAGE"
   /\ GetSize(node) >= 2
   /\ SeparatorsAscending(node))
    => LET key == acc.index
           below == {j \in 1 .. (GetSize(node) - 1) : At(node, j).key <= key}
       IN acc.out = <<IF below = {} THEN At(node, 0).value
                      ELSE At(node, CHOOSE j \in below :
                                      \A i \in below : i <= j).value>>

\* a lookup between two separators on a page whose entry 0 carries a key
\* larger than the one looked up
C22_Witness ==
  /\ acc.fn = "Lookup"
  /\ node.page_type = "INTERNAL_PAGE"
  /\ GetSize(node) >= 3
  /\ SeparatorsAscending(node)
  /\ At(node, 0).key > acc.index
  /\ At(node, 1).key <= acc.index
  /\ At(node, 2).key > acc.index

\* ---- moves between two internal pages ----------------------------------------------
\* the call named fn returned normally in this step
Returned(fn) == acc'.fn = fn /\ ~acc'.threw /\ ~crashed'

\* C23: MoveLastToFrontOf(recipient, middle_key) takes one entry from the
\* donor and gives one to the recipient; the donor's last child is the
\* recipient's entry 0, middle_key is the key of entry 1, in front of the
\* recipient's former leftmost child, and when the donor's keys lie below
\* middle_key and the recipient's above it, the recipient's keys at entries
\* [1, size) are strictly ascending.
C23_MoveLastKeepsRecipientWellFormed ==
  [][(Returned("MoveLastToFrontOf") /\ GetSize(recipient) >= 1)
       => LET middle_key == acc'.index IN
          /\ GetSize(node') = GetSize(node) - 1
          /\ GetSize(recipient') = GetSize(recipient) + 1
          /\ At(recipient', 0).value = At(node, GetSize(node) - 1).value
          /\ At(recipient', 1).value = At(recipient, 0).value
          /\ At(recipient', 1).key = middle_key
          /\ (/\ SeparatorsAscending(recipient)
              /\ \A i \in 1 .. (GetSize(recipient) - 1) :
                   middle_key < At(recipient, i).key)
               => SeparatorsAscending(recipient')]_vars

\* C24: MoveAllTo(recipient, middle_key) on a donor with n >= 1 entries
\* leaves the recipient with its r entries as they were, then (middle_key,
\* donor child 0), then the donor's entries [1, n) as they were, and the
\* donor with size 0; if both pages' keys ascend, every donor key exceeds
\* middle_key and middle_key exceeds every recipient key, then the
\* recipient's keys at [1, r + n) are strictly ascending.
C24_MoveAllAppendsUnderMiddleKey ==
  [][(Returned("MoveAllTo") /\ GetSize(node) >= 1)
       => LET middle_key == acc'.index
              r == GetSize(recipient)
              n == GetSize(node)
          IN
          /\ GetSize(recipient') = r + n
          /\ \A i \in 0 .. (r - 1) : At(recipient', i) = At(recipient, i)
          /\ At(recipient', r) =
               [key |-> middle_key, value |-> At(node, 0).value]
          /\ \A i \in 1 .. (n - 1) : At(recipient', r + i) = At(node, i)
          /\ GetSize(node') = 0
          /\ (/\ SeparatorsAscending(node)
              /\ SeparatorsAscending(recipient)
              /\ \A i \in 1 .. (n - 1) : middle_key < At(node, i).key
              /\ \A i \in 1 .. (r - 1) : At(recipient, i).key < middle_key)
               => SeparatorsAscending(recipient')]_vars

\* a merge of two pages with separators on both sides of middle_key: the
\* donor's children 0 and 1 follow the recipient's own entries
C24_Witness ==
  /\ acc.fn = "MoveAllTo"
  /\ ~acc.threw
  /\ ~crashed
  /\ GetSize(node) = 0
  /\ GetSize(recipient) >= 4
  /\ SeparatorsAscending(recipient)
  /\ \E i \in 2 .. (GetSize(recipient) - 2) :
       /\ At(recipient, i) = [key |-> acc.index, value |-> 0]
       /\ At(recipient, i + 1).value = 1
       /\ At(recipient, i - 1).value = MaxSize + i - 1

\* ---- re-parenting -------------------------------------------------------------------
\* C25: when MoveHalfTo, MoveAllTo, MoveFirstToEndOf or MoveLastToFrontOf of
\* an internal page is done, every child whose entry moved holds the
\* recipient's page id as its parent (in its buffer, or on disk once it was
\* evicted), was unpinned with is_dirty = true and is dirty while it stays
\* in the pool, and every other page holds what it held before; so a child
\* that named its node as parent before still names the node that lists it.
C25_MovedChildrenAdopted ==
  move.stage = "done"
    => /\ move.unpins = Len(move.children)
       /\ \A i \in 1 .. Len(move.children) :
            LET c == move.children[i] IN
            /\ Content(c) = move.parent
            /\ Resident(c) => pages[page_table[c]].is_dirty
       /\ \A pr \in move.kept : Content(pr[1]) = pr[2]

\* two children were adopted, the first was evicted on the way, and a page
\* that did not move names another parent
C25_Witness ==
  /\ move.stage = "done"
  /\ Len(move.children) >= 2
  /\ ~Resident(move.children[1])
  /\ \E pr \in move.kept : pr[2] # move.parent

\* ---- one leaf page ------------------------------------------------------------------
\* keys of the leaf strictly ascending
LeafAscending(n) ==
  \A i \in 0 .. (GetSize(n) - 2) : At(n, i).key < At(n, i + 1).key

\* C26: whatever was called before, the leaf's keys are strictly ascending
\* and its size is at most max_size; Insert of a key that is present, or
\* into a leaf with size = max_size, leaves the leaf as it was and returns
\* that size; any other Insert adds one entry and returns the new size.
C26_InsertKeepsLeafWellFormed ==
  [][/\ LeafAscending(node')
     /\ GetSize(node') <= GetMaxSize(node')
     /\ acc'.fn = "Insert"
          => IF \/ \E i \in 0 .. (GetSize(node) - 1) :
                     At(node, i).key = acc'.index
                \/ GetSize(node) = GetMaxSize(node)
               THEN node' = node /\ acc'.out = <<GetSize(node)>>
               ELSE /\ GetSize(node') = GetSize(node) + 1
                    /\ acc'.out = <<GetSize(node')>>
                    /\ \E i \in 0 .. (GetSize(node') - 1) :
                         At(node', i).key = acc'.index]_vars

\* an Insert of a new key into a leaf that already held max_size >= 2 entries
C26_Witness ==
  /\ acc.fn = "Insert"
  /\ GetMaxSize(node) >= 2
  /\ GetSize(node) = GetMaxSize(node)
  /\ acc.out = <<GetSize(node)>>
  /\ \A i \in 0 .. (GetSize(node) - 1) : At(node, i).key # acc.index

\* C27: after any sequence of Insert and RemoveAndDeleteRecord calls the
\* leaf answers every Lookup as the reference map does (first insert of a
\* key wins, an insert into a full leaf is ignored, a remove deletes the
\* key, a remove of an absent key does nothing): <<TRUE, v>> when the map
\* holds key -> v, <<FALSE>> when it holds no such key; and so did the
\* Lookup that was called last.
C27_LeafIsBoundedMap ==
  /\ \A k \in PairKeys :
       LookupResult(node, k) =
         IF \E pr \in ref : pr[1] = k
           THEN <<TRUE, (CHOOSE pr \in ref : pr[1] = k)[2]>>
           ELSE <<FALSE>>
  /\ acc.fn = "Lookup" => acc.out = LookupResult(node, acc.index)
  /\ Cardinality(ref) = GetSize(node)

\* a Lookup that found the middle key of a full leaf of three, with value 1
C27_Witness ==
  /\ acc.fn = "Lookup"
  /\ acc.out = <<TRUE, 1>>
  /\ GetSize(node) = MaxSize
  /\ At(node, 1).key = acc.index
  /\ <<acc.index, 1>> \in ref

\* ---- moves between two leaf pages ---------------------------------------------------
\* C28: leaf MoveAllTo(recipient) leaves the recipient with its entries
\* followed by the donor's in their order and with the donor's former
\* next_page_id, and the donor with size 0; if the recipient was the donor's
\* left neighbour (it pointed at the donor and its keys lay below the
\* donor's), the recipient no longer points at the donor and holds the
\* entries of both leaves in ascending key order in front of the donor's
\* former successor.
C28_LeafMoveAllKeepsChain ==
  [][(acc'.fn = "MoveAllTo" /\ node.page_type = "LEAF_PAGE")
       => /\ recipient'.array = recipient.array \o node.array
          /\ recipient'.next_page_id = node.next_page_id
          /\ GetSize(node') = 0
          /\ (/\ recipient.next_page_id = node.page_id
              /\ LeafAscending(recipient)
              /\ LeafAscending(node)
              /\ \A i \in 0 .. (GetSize(recipient) - 1),
                    j \in 0 .. (GetSize(node) - 1) :
                   At(recipient, i).key < At(node, j).key)
               => /\ recipient'.next_page_id # node.page_id
                  /\ LeafAscending(recipient')]_vars

\* a left neighbour with two entries took the two entries of the donor and
\* now points at the donor's successor, page 2
C28_Witness ==
  /\ acc.fn = "MoveAllTo"
  /\ node.page_type = "LEAF_PAGE"
  /\ GetSize(node) = 0
  /\ GetSize(recipient) = 4
  /\ LeafAscending(recipient)
  /\ At(recipient, 1).value = 1
  /\ At(recipient, 2).value = 0
  /\ recipient.next_page_id = 2

\* C29: MoveHalfTo keeps entries and order.  A leaf with n entries and an
\* empty recipient keeps its first n - n/2 entries and the recipient holds
\* the last n/2; an internal page with n entries keeps its first n/2 and the
\* rest is appended to the recipient's entries; either way the donor's
\* entries followed by the moved ones are the donor's entries from before.
C29_MoveHalfConservesEntries ==
  [][(acc'.fn = "MoveHalfTo" /\ ~crashed')
       => LET n == GetSize(node)
              half == n \div 2
          IN IF node.page_type = "LEAF_PAGE"
               THEN GetSize(recipient) = 0
                      => /\ node'.array = SubSeq(node.array, 1, n - half)
                         /\ recipient'.array =
                              SubSeq(node.array, n - half + 1, n)
                         /\ node'.array \o recipient'.array = node.array
               ELSE /\ node'.array = SubSeq(node.array, 1, half)
                    /\ recipient'.array =
                         recipient.array \o SubSeq(node.array, half + 1, n)
                    /\ node'.array
                         \o SubSeq(recipient'.array, GetSize(recipient) + 1,
                                   GetSize(recipient'))
                         = node.array]_vars

\* an internal page of three entries kept its first entry and handed
\* children 1 and 2 to a recipient that had two entries of its own
C29_Witness ==
  /\ acc.fn = "MoveHalfTo"
  /\ ~crashed
  /\ node.page_type = "INTERNAL_PAGE"
  /\ GetSize(node) = 1
  /\ GetSize(recipient) = 4
  /\ At(recipient, 1).value = MaxSize + 1
  /\ At(recipient, 2).value = 1
  /\ At(recipient, 3).value = 2

\* how often e occurs in s
Occurrences(s, e) == Cardinality({i \in 1 .. Len(s) : s[i] = e})

\* C30: leaf MoveFirstToEndOf(recipient) and MoveLastToFrontOf(recipient) on
\* a donor that has an entry leave donor and recipient together with the
\* same multiset of entries, whatever the recipient held (max_size entries
\* included).
C30_LeafRotationsConserveEntries ==
  [][(/\ acc'.fn \in {"MoveFirstToEndOf", "MoveLastToFrontOf"}
      /\ node.page_type = "LEAF_PAGE"
      /\ GetSize(node) > 0)
       => LET before == node.array \o recipient.array
              after == node'.array \o recipient'.array
          IN \A i \in 1 .. Len(before) :
               Occurrences(after, before[i]) = Occurrences(before, before[i])]_vars

\* ---- splits -------------------------------------------------------------------------
\* ceil(max_size / 2)
MinSize(max_size) == (max_size + 1) \div 2

\* C31: when MoveHalfTo splits a leaf that holds max_size entries, or an
\* internal page that holds max_size + 1 entries, into an empty recipient,
\* donor and recipient both end with at least ceil(max_size / 2) entries,
\* for every max_size >= 2.
C31_SplitKeepsMinOccupancy ==
  [][(/\ acc'.fn = "MoveHalfTo"
      /\ ~crashed'
      /\ GetSize(recipient) = 0
      /\ GetMaxSize(node) >= 2
      /\ GetSize(node) = IF node.page_type = "LEAF_PAGE"
                           THEN GetMaxSize(node)
                           ELSE GetMaxSize(node) + 1)
       => /\ GetSize(node') >= MinSize(GetMaxSize(node))
          /\ GetSize(recipient') >= MinSize(GetMaxSize(node))]_vars

\* ---- the latch ----------------------------------------------------------------------
\* C32: every return of FetchPageImpl, UnpinPageImpl, FlushPageImpl and
\* NewPageImpl leaves the latch free; while the process runs, a latch that
\* is held is released, and under fair scheduling every thread gets the
\* latch again and again, so no sequence of calls blocks the pool.
C32_LatchAlwaysReleased ==
  /\ [][(latch # 0 /\ op'.kind \in {"fetch", "unpin", "flush", "new"})
          => latch' = 0]_vars
  /\ \A t \in Threads : (latch = t) ~> (latch = 0 \/ crashed)
  /\ \A t \in Threads : []<>(latch = t \/ crashed)

\* a fetch that found neither a free frame nor a victim has returned and
\* the latch is free
C32_Witness ==
  /\ latch = 0
  /\ op.kind = "fetch"
  /\ ~op.ok
  /\ op.miss
  /\ op.victim_called

====
